---- MODULE Spec2Model ----
(***************************************************************************)
(* Model of src/dygraph-default-scale.js: the default Dygraph axis scaling *)
(* functions (linear and logarithmic), with the graph's per-axis           *)
(* "logscale" attribute as the only state they read.                       *)
(*                                                                         *)
(* JavaScript numbers are modelled as exact values with the IEEE-754       *)
(* special values kept apart:                                              *)
(*   [t |-> "fin", n, d]   the rational n/d, d > 0, gcd(n, d) = 1          *)
(*   [t |-> "p10", n, d]   the irrational 10^(n/d), d > 1, gcd(n, d) = 1   *)
(*   [t |-> "nan"], [t |-> "pinf"], [t |-> "ninf"]   NaN, +Infinity, -Inf. *)
(* Rounding and signed zero are not modelled.  Arithmetic is defined on    *)
(* rationals and special values; log10 is defined on the special values,   *)
(* non-positive numbers, 10^(n/d) and rational powers of ten, which is     *)
(* what the data values drawn below are.                                   *)
(***************************************************************************)
EXTENDS Integers, Sequences, FiniteSets, TLC

VARIABLES graph, args, last

vars == <<graph, args, last>>

\* ---------------------------------------------------------------- bounds
MaxExp == 3
RsvDen == 4

\* --------------------------------------------------------------- numbers
RECURSIVE GCD(_, _)
GCD(a, b) == IF b = 0 THEN a ELSE GCD(b, a % b)

Abs(n) == IF n < 0 THEN -n ELSE n

RECURSIVE IPow10(_)
IPow10(k) == IF k = 0 THEN 1 ELSE 10 * IPow10(k - 1)

RECURSIVE IsPow10(_)
IsPow10(n) == n >= 1 /\ (n = 1 \/ (n % 10 = 0 /\ IsPow10(n \div 10)))

RECURSIVE ILog10(_)
ILog10(n) == IF n = 1 THEN 0 ELSE 1 + ILog10(n \div 10)

Fin(n, d) ==
  LET g == GCD(Abs(n), Abs(d))
      s == IF d < 0 THEN -1 ELSE 1
  IN  [t |-> "fin", n |-> (s * n) \div g, d |-> (s * d) \div g]

NaN  == [t |-> "nan",  n |-> 0, d |-> 1]
PInf == [t |-> "pinf", n |-> 0, d |-> 1]
NInf == [t |-> "ninf", n |-> 0, d |-> 1]
Zero == Fin(0, 1)
One  == Fin(1, 1)

IsInf(x) == x.t \in {"pinf", "ninf"}

\* sign of a rational or an infinity: -1, 0, 1
Sign(x) ==
  IF x.t = "pinf" THEN 1
  ELSE IF x.t = "ninf" THEN -1
  ELSE IF x.n > 0 THEN 1 ELSE IF x.n < 0 THEN -1 ELSE 0

InfOf(s) == IF s > 0 THEN PInf ELSE NInf

Neg(a) ==
  IF a.t = "nan" THEN NaN
  ELSE IF a.t = "pinf" THEN NInf
  ELSE IF a.t = "ninf" THEN PInf
  ELSE CASE a.t = "fin" -> Fin(-a.n, a.d)

Add(a, b) ==
  IF a.t = "nan" \/ b.t = "nan" THEN NaN
  ELSE IF IsInf(a) /\ IsInf(b) THEN (IF a.t = b.t THEN a ELSE NaN)
  ELSE IF IsInf(a) THEN a
  ELSE IF IsInf(b) THEN b
  ELSE CASE a.t = "fin" /\ b.t = "fin" -> Fin(a.n * b.d + b.n * a.d, a.d * b.d)

Sub(a, b) == Add(a, Neg(b))

Mul(a, b) ==
  IF a.t = "nan" \/ b.t = "nan" THEN NaN
  ELSE IF IsInf(a) \/ IsInf(b)
       THEN (IF Sign(a) = 0 \/ Sign(b) = 0 THEN NaN ELSE InfOf(Sign(a) * Sign(b)))
  ELSE CASE a.t = "fin" /\ b.t = "fin" -> Fin(a.n * b.n, a.d * b.d)

Div(a, b) ==
  IF a.t = "nan" \/ b.t = "nan" THEN NaN
  ELSE IF IsInf(a) /\ IsInf(b) THEN NaN
  ELSE IF IsInf(a) THEN InfOf(IF Sign(b) < 0 THEN -Sign(a) ELSE Sign(a))
  ELSE IF IsInf(b) THEN Zero
  ELSE CASE a.t = "fin" /\ b.t = "fin" ->
         IF b.n = 0
         THEN (IF a.n = 0 THEN NaN ELSE InfOf(Sign(a)))
         ELSE Fin(a.n * b.d, a.d * b.n)

isNaN(x) == x.t = "nan"

isFinite(x) == x.t \in {"fin", "p10"}

\* Math.pow(10, x)
Pow10(x) ==
  IF x.t = "nan" THEN NaN
  ELSE IF x.t = "pinf" THEN PInf
  ELSE IF x.t = "ninf" THEN Zero
  ELSE CASE x.t = "fin" ->
         IF x.d = 1
         THEN (IF x.n >= 0 THEN Fin(IPow10(x.n), 1) ELSE Fin(1, IPow10(-x.n)))
         ELSE [t |-> "p10", n |-> x.n, d |-> x.d]

\* utils.log10(x) = Math.log(x) / Math.LN10
log10(x) ==
  IF x.t = "nan" THEN NaN
  ELSE IF x.t = "pinf" THEN PInf
  ELSE IF x.t = "ninf" THEN NaN
  ELSE IF x.t = "p10" THEN Fin(x.n, x.d)
  ELSE IF x.n < 0 THEN NaN
  ELSE IF x.n = 0 THEN NInf
  ELSE CASE x.d = 1 /\ IsPow10(x.n) -> Fin(ILog10(x.n), 1)
         [] x.n = 1 /\ IsPow10(x.d) -> Fin(-ILog10(x.d), 1)

\* utils.logRangeFraction(r0, r1, pct)
logRangeFraction(r0, r1, pct) ==
  LET logr0 == log10(r0)
      logr1 == log10(r1)
      exponent == Add(logr0, Mul(pct, Sub(logr1, logr0)))
  IN  Pow10(exponent)

\* ----------------------------------------------------------------- graph
Axes == {0, 1}

\* graph.attributes_.getForAxis("logscale", axis)
getForAxis(g, axis) == g[axis]

\* a graph whose axes all have the given scale kind
GraphOf(b) == [a \in Axes |-> b]

\* ------------------------------------------------- DygraphDefaultScale
scaledValueToDataPoint(g, axis, sv) ==
  IF ~getForAxis(g, axis) THEN sv ELSE Pow10(sv)

dataPointToScaledValue(g, axis, v) ==
  IF ~getForAxis(g, axis) THEN v ELSE log10(v)

\* mutant: the relative position is clamped into [0,1]
relativeScaledValueToDataPoint_clamped(g, axis, rsv, range_start, range_end, invert) ==
  LET range_width == Sub(range_end, range_start)
      c == IF rsv.t = "fin" /\ rsv.n < 0 THEN Zero
           ELSE IF rsv.t = "fin" /\ rsv.n > rsv.d THEN One ELSE rsv
  IN  IF ~getForAxis(g, axis)
      THEN (IF invert
            THEN Sub(range_end, Mul(c, range_width))
            ELSE Add(range_start, Mul(c, range_width)))
      ELSE (IF invert
            THEN logRangeFraction(range_end, range_start, c)
            ELSE logRangeFraction(range_start, range_end, c))

\* mutant: the logarithmic branch interpolates from range_start whatever invert
relativeScaledValueToDataPoint_noSwap(g, axis, rsv, range_start, range_end, invert) ==
  LET range_width == Sub(range_end, range_start)
  IN  IF ~getForAxis(g, axis)
      THEN (IF invert
            THEN Sub(range_end, Mul(rsv, range_width))
            ELSE Add(range_start, Mul(rsv, range_width)))
      ELSE logRangeFraction(range_start, range_end, rsv)

relativeScaledValueToDataPoint(g, axis, rsv, range_start, range_end, invert) ==
  LET range_width == Sub(range_end, range_start)
  IN  IF ~getForAxis(g, axis)
      THEN (IF invert
            THEN Sub(range_end, Mul(rsv, range_width))
            ELSE Add(range_start, Mul(rsv, range_width)))
      ELSE (IF invert
            THEN logRangeFraction(range_end, range_start, rsv)
            ELSE logRangeFraction(range_start, range_end, rsv))

\* mutant helpers: the two branches of dataPointToRelativeScaledValue with the
\* zero-width substitution (guard) and the non-finite shim switchable
MutLinearRelative(value, range_start, range_end, guard) ==
  LET w == Sub(range_end, range_start)
      range_width == IF guard /\ w = Zero THEN One ELSE w
  IN  Div(Sub(value, range_start), range_width)

MutLogRelative(value, range_start, range_end, guard, shim) ==
  LET log_range_start == log10(range_start)
      log_range_end == log10(range_end)
      w == Sub(log_range_end, log_range_start)
      log_range_width == IF guard /\ w = Zero THEN One ELSE w
      sv == Div(Sub(log10(value), log_range_start), log_range_width)
  IN  IF shim /\ ~isFinite(sv) THEN NaN ELSE sv

\* mutant: the result is returned without the final 1 - s
dataPointToRelativeScaledValue_noFlip(g, axis, value, range_start, range_end, invert) ==
  IF ~getForAxis(g, axis)
  THEN MutLinearRelative(value, range_start, range_end, TRUE)
  ELSE MutLogRelative(value, range_start, range_end, TRUE, TRUE)

\* mutant: the final 1 - s is applied on the linear path only
dataPointToRelativeScaledValue_noLogFlip(g, axis, value, range_start, range_end, invert) ==
  IF ~getForAxis(g, axis)
  THEN (LET s == MutLinearRelative(value, range_start, range_end, TRUE)
        IN  IF invert THEN Sub(One, s) ELSE s)
  ELSE MutLogRelative(value, range_start, range_end, TRUE, TRUE)

\* mutant: a zero linear width is not replaced by 1.0
dataPointToRelativeScaledValue_noLinearGuard(g, axis, value, range_start, range_end, invert) ==
  LET s == IF ~getForAxis(g, axis)
           THEN MutLinearRelative(value, range_start, range_end, FALSE)
           ELSE MutLogRelative(value, range_start, range_end, TRUE, TRUE)
  IN  IF invert THEN Sub(One, s) ELSE s

\* mutant: a zero logarithmic width is not replaced by 1.0
dataPointToRelativeScaledValue_noLogGuard(g, axis, value, range_start, range_end, invert) ==
  LET s == IF ~getForAxis(g, axis)
           THEN MutLinearRelative(value, range_start, range_end, TRUE)
           ELSE MutLogRelative(value, range_start, range_end, FALSE, TRUE)
  IN  IF invert THEN Sub(One, s) ELSE s

\* mutant: a non-finite logarithmic result is not replaced by NaN
dataPointToRelativeScaledValue_noShim(g, axis, value, range_start, range_end, invert) ==
  LET s == IF ~getForAxis(g, axis)
           THEN MutLinearRelative(value, range_start, range_end, TRUE)
           ELSE MutLogRelative(value, range_start, range_end, TRUE, FALSE)
  IN  IF invert THEN Sub(One, s) ELSE s

dataPointToRelativeScaledValue(g, axis, value, range_start, range_end, invert) ==
  LET linear ==
        LET w == Sub(range_end, range_start)
            range_width == IF w = Zero THEN One ELSE w
        IN  Div(Sub(value, range_start), range_width)
      logarithmic ==
        LET log_range_start == log10(range_start)
            log_range_end == log10(range_end)
            w == Sub(log_range_end, log_range_start)
            log_range_width == IF w = Zero THEN One ELSE w
            sv == Div(Sub(log10(value), log_range_start), log_range_width)
        IN  IF ~isFinite(sv) THEN NaN ELSE sv
      scaled_value == IF ~getForAxis(g, axis) THEN linear ELSE logarithmic
  IN  IF invert THEN Sub(One, scaled_value) ELSE scaled_value

\* mutant: only log_scale is tested, not log_range_width
rangeError_scaleOnly(g, axis, range_start, range_end) ==
  IF ~getForAxis(g, axis)
  THEN FALSE
  ELSE LET w == Sub(log10(range_end), log10(range_start))
           log_range_width == IF w = Zero THEN One ELSE w
           log_scale == Div(One, log_range_width)
       IN  (~isFinite(log_scale) \/ isNaN(log_scale))

\* mutant: a zero logarithmic width is not replaced by 1.0
rangeError_noGuard(g, axis, range_start, range_end) ==
  IF ~getForAxis(g, axis)
  THEN FALSE
  ELSE LET log_range_width == Sub(log10(range_end), log10(range_start))
           log_scale == Div(One, log_range_width)
       IN  (~isFinite(log_scale) \/ isNaN(log_scale) \/
            ~isFinite(log_range_width) \/ isNaN(log_range_width))

\* mutant: the scale kind is read from the first axis, whichever axis is asked
rangeError_firstAxis(g, axis, range_start, range_end) ==
  IF ~getForAxis(g, 0)
  THEN FALSE
  ELSE LET w == Sub(log10(range_end), log10(range_start))
           log_range_width == IF w = Zero THEN One ELSE w
           log_scale == Div(One, log_range_width)
       IN  (~isFinite(log_scale) \/ isNaN(log_scale) \/
            ~isFinite(log_range_width) \/ isNaN(log_range_width))

rangeError(g, axis, range_start, range_end) ==
  IF ~getForAxis(g, axis)
  THEN FALSE
  ELSE LET log_range_start == log10(range_start)
           log_range_end == log10(range_end)
           w == Sub(log_range_end, log_range_start)
           log_range_width == IF w = Zero THEN One ELSE w
           log_scale == Div(One, log_range_width)
       IN  (~isFinite(log_scale) \/ isNaN(log_scale) \/
            ~isFinite(log_range_width) \/ isNaN(log_range_width))

\* ---------------------------------------------------------------- inputs
\* finite data values: negative, zero, and the powers of ten up to 10^MaxExp
Data == {Fin(-1, 1), Zero} \cup {Fin(IPow10(k), 1) : k \in 0..MaxExp}

\* values handed to the conversions: the data values and the non-finite ones
Values == Data \cup {NaN, PInf}

\* relative positions k/RsvDen, from just below 0 to just above 1
Rsvs == {Fin(k, RsvDen) : k \in -1..(RsvDen + 1)}

\* the arguments of the calls of one behaviour.  A call takes a data value or
\* a relative position, never both, so one of the two is varied and the other
\* is 0.
Args ==
  [value : Values, rsv : {Zero}, range_start : Data, range_end : Data,
   invert : BOOLEAN]
  \cup
  [value : {Zero}, rsv : Rsvs, range_start : Data, range_end : Data,
   invert : BOOLEAN]

NoCall == [op |-> "none", axis |-> 0, logscale |-> FALSE, result |-> NaN]

Returned(op, axis, result) ==
  [op |-> op, axis |-> axis, logscale |-> getForAxis(graph, axis), result |-> result]

\* --------------------------------------------------------------- actions
Init ==
  /\ graph \in [Axes -> BOOLEAN]
  /\ args \in Args
  /\ last = NoCall

CallScaledValueToDataPoint ==
  \E axis \in Axes :
    /\ last' = Returned("scaledValueToDataPoint", axis,
                        scaledValueToDataPoint(graph, axis, args.rsv))
    /\ UNCHANGED <<graph, args>>

CallDataPointToScaledValue ==
  \E axis \in Axes :
    /\ last' = Returned("dataPointToScaledValue", axis,
                        dataPointToScaledValue(graph, axis, args.value))
    /\ UNCHANGED <<graph, args>>

CallRelativeScaledValueToDataPoint ==
  \E axis \in Axes :
    /\ last' = Returned("relativeScaledValueToDataPoint", axis,
                        relativeScaledValueToDataPoint(graph, axis, args.rsv,
                          args.range_start, args.range_end, args.invert))
    /\ UNCHANGED <<graph, args>>

CallDataPointToRelativeScaledValue ==
  \E axis \in Axes :
    /\ last' = Returned("dataPointToRelativeScaledValue", axis,
                        dataPointToRelativeScaledValue(graph, axis, args.value,
                          args.range_start, args.range_end, args.invert))
    /\ UNCHANGED <<graph, args>>

CallRangeError ==
  \E axis \in Axes :
    /\ last' = Returned("rangeError", axis,
                        rangeError(graph, axis, args.range_start, args.range_end))
    /\ UNCHANGED <<graph, args>>

\* the graph changes an axis's scale kind (updateOptions on "logscale")
SetLogscale ==
  \E axis \in Axes :
    /\ graph' = [graph EXCEPT ![axis] = ~graph[axis]]
    /\ UNCHANGED <<args, last>>

Next ==
  \/ CallScaledValueToDataPoint
  \/ CallDataPointToScaledValue
  \/ CallRelativeScaledValueToDataPoint
  \/ CallDataPointToRelativeScaledValue
  \/ CallRangeError
  \/ SetLogscale

Spec == Init /\ [][Next]_vars

\* ---------------------------------------------------- claim vocabulary
\* x is the rational n/d, compared by cross-multiplication on the integers
IsRat(x, n, d) == x.t = "fin" /\ x.n * d = n * x.d

Positive(x) == x.t = "fin" /\ x.n > 0

NonPositive(x) == x.t = "fin" /\ x.n <= 0

InUnit(x) == x.t = "fin" /\ 0 <= x.n /\ x.n <= x.d

\* the range has non-zero width as the scale kind measures it
NonZeroWidth(logscale, range_start, range_end) ==
  IF logscale THEN log10(range_start) # log10(range_end)
  ELSE range_start # range_end

\* the relative position the last call's result maps back to, same scale kind
BackToRelative ==
  dataPointToRelativeScaledValue(GraphOf(last.logscale), last.axis, last.result,
    args.range_start, args.range_end, args.invert)

\* what a call computes from its own arguments and its axis's scale kind
Apply(op, logscale, axis, a) ==
  CASE op = "scaledValueToDataPoint" ->
         scaledValueToDataPoint(GraphOf(logscale), axis, a.rsv)
    [] op = "dataPointToScaledValue" ->
         dataPointToScaledValue(GraphOf(logscale), axis, a.value)
    [] op = "relativeScaledValueToDataPoint" ->
         relativeScaledValueToDataPoint(GraphOf(logscale), axis, a.rsv,
           a.range_start, a.range_end, a.invert)
    [] op = "dataPointToRelativeScaledValue" ->
         dataPointToRelativeScaledValue(GraphOf(logscale), axis, a.value,
           a.range_start, a.range_end, a.invert)
    [] op = "rangeError" ->
         rangeError(GraphOf(logscale), axis, a.range_start, a.range_end)

\* ------------------------------------------------------------------ C1
\* C1 (as stated): for every range with positive bounds that rangeError
\* accepts, every rsv in [0,1], both values of invert and either scale kind,
\* converting rsv to a data point and back gives rsv.
C1_RoundTripOnAcceptedRange ==
  (/\ last.op = "relativeScaledValueToDataPoint"
   /\ Positive(args.range_start) /\ Positive(args.range_end)
   /\ InUnit(args.rsv)
   /\ ~rangeError(GraphOf(last.logscale), last.axis, args.range_start, args.range_end))
  => BackToRelative = args.rsv

\* C1 (amended): the round trip gives rsv for every range with positive
\* bounds and non-zero width (range_start # range_end under the linear kind,
\* distinct logarithms under the logarithmic kind).
C1_RoundTripOnNonZeroWidth ==
  (/\ last.op = "relativeScaledValueToDataPoint"
   /\ Positive(args.range_start) /\ Positive(args.range_end)
   /\ InUnit(args.rsv)
   /\ NonZeroWidth(last.logscale, args.range_start, args.range_end))
  => BackToRelative = args.rsv

C1_Witness ==
  /\ last.op = "relativeScaledValueToDataPoint"
  /\ last.logscale /\ args.invert
  /\ Positive(args.range_start) /\ Positive(args.range_end)
  /\ args.range_start # args.range_end
  /\ args.rsv = Fin(1, RsvDen)
  /\ last.result.t = "p10"
  /\ BackToRelative = args.rsv

\* ------------------------------------------------------------------ C2
\* C2: under the linear kind relativeScaledValueToDataPoint returns
\* range_start + rsv * (range_end - range_start), or
\* range_end - rsv * (range_end - range_start) when inverted, for every rsv,
\* those outside [0,1] included; 0..100 at 1/4 gives 25, and 75 inverted.
C2_LinearInterpolation ==
  (last.op = "relativeScaledValueToDataPoint" /\ ~last.logscale) =>
    LET a == args.range_start.n
        b == args.range_start.d
        c == args.range_end.n
        d == args.range_end.d
        p == args.rsv.n
        q == args.rsv.d
    IN  /\ IF args.invert
           THEN IsRat(last.result, c * q * b - p * (c * b - a * d), q * b * d)
           ELSE IsRat(last.result, a * q * d + p * (c * b - a * d), q * b * d)
        /\ (args.range_start = Zero /\ args.range_end = Fin(100, 1)
            /\ args.rsv = Fin(1, 4))
           => last.result = (IF args.invert THEN Fin(75, 1) ELSE Fin(25, 1))

C2_Witness ==
  /\ last.op = "relativeScaledValueToDataPoint" /\ ~last.logscale
  /\ args.range_start = Zero /\ args.range_end = Fin(100, 1)
  /\ ~InUnit(args.rsv) /\ args.rsv.n > 0 /\ ~args.invert
  /\ last.result.n > 100 * last.result.d

\* ------------------------------------------------------------------ C3
\* C3: for either kind and positive bounds, rsv = 0 maps to range_start and
\* rsv = 1 to range_end, and the other way round when inverted.
C3_EndPoints ==
  (/\ last.op = "relativeScaledValueToDataPoint"
   /\ Positive(args.range_start) /\ Positive(args.range_end)) =>
    /\ args.rsv = Zero =>
         last.result = (IF args.invert THEN args.range_end ELSE args.range_start)
    /\ args.rsv = One =>
         last.result = (IF args.invert THEN args.range_start ELSE args.range_end)

C3_Witness ==
  /\ last.op = "relativeScaledValueToDataPoint"
  /\ last.logscale /\ args.invert /\ args.rsv = One
  /\ Positive(args.range_start) /\ Positive(args.range_end)
  /\ args.range_start # args.range_end
  /\ last.result = args.range_start

\* ------------------------------------------------------------------ C4
\* C4: for either kind and all inputs, dataPointToRelativeScaledValue with
\* invert returns 1 - s, s being the result without invert (NaN stays NaN).
C4_InvertFlips ==
  (last.op = "dataPointToRelativeScaledValue" /\ args.invert) =>
    LET s == dataPointToRelativeScaledValue(GraphOf(last.logscale), last.axis,
               args.value, args.range_start, args.range_end, FALSE)
    IN  IF s.t = "fin" THEN IsRat(last.result, s.d - s.n, s.d)
        ELSE IF s.t = "pinf" THEN last.result = NInf
        ELSE IF s.t = "ninf" THEN last.result = PInf
        ELSE last.result = NaN

C4_Witness ==
  /\ last.op = "dataPointToRelativeScaledValue"
  /\ last.logscale /\ args.invert
  /\ Positive(args.range_start) /\ args.range_start = args.range_end
  /\ Positive(args.value)
  /\ last.result.t = "fin" /\ last.result.n > last.result.d

\* ------------------------------------------------------------------ C5
\* C5 (as stated): under the linear kind with range_start = range_end every
\* finite value maps to one fixed offset, 0 without invert, and never NaN.
C5_ZeroWidthFixedOffset ==
  (/\ last.op = "dataPointToRelativeScaledValue" /\ ~last.logscale
   /\ args.range_start = args.range_end /\ args.value.t = "fin")
  => last.result = (IF args.invert THEN One ELSE Zero)

\* C5 (amended): under the linear kind with range_start = range_end a finite
\* value maps to value - range_start (1 - (value - range_start) inverted),
\* which is 0 at value = range_start without invert, and is never NaN.
C5_ZeroWidthUnitWidth ==
  (/\ last.op = "dataPointToRelativeScaledValue" /\ ~last.logscale
   /\ args.range_start = args.range_end /\ args.value.t = "fin") =>
    LET v == args.value.n
        e == args.value.d
        a == args.range_start.n
        b == args.range_start.d
    IN  /\ IF args.invert
           THEN IsRat(last.result, e * b - (v * b - a * e), e * b)
           ELSE IsRat(last.result, v * b - a * e, e * b)
        /\ (args.value = args.range_start /\ ~args.invert) => last.result = Zero

C5_Witness ==
  /\ last.op = "dataPointToRelativeScaledValue" /\ ~last.logscale
  /\ args.range_start = args.range_end /\ args.value.t = "fin"
  /\ args.value # args.range_start /\ ~args.invert
  /\ last.result.t = "fin" /\ last.result # Zero

\* ------------------------------------------------------------------ C6
\* C6: rangeError is false for every pair of bounds under the linear kind;
\* under the logarithmic kind it is true when either bound is <= 0 and false
\* when both are positive with distinct logarithms (-1..10 true, 1..1000
\* false).
C6_RangeError ==
  (last.op = "rangeError") =>
    /\ ~last.logscale => last.result = FALSE
    /\ (last.logscale /\ (NonPositive(args.range_start) \/ NonPositive(args.range_end)))
         => last.result = TRUE
    /\ (/\ last.logscale /\ Positive(args.range_start) /\ Positive(args.range_end)
        /\ log10(args.range_start) # log10(args.range_end))
         => last.result = FALSE
    /\ (args.range_start = Fin(-1, 1) /\ args.range_end = Fin(10, 1))
         => last.result = last.logscale
    /\ (args.range_start = One /\ args.range_end = Fin(1000, 1))
         => last.result = FALSE

C6_Witness ==
  /\ last.op = "rangeError" /\ last.logscale
  /\ args.range_start = Zero /\ Positive(args.range_end)
  /\ last.result = TRUE

\* ------------------------------------------------------------------ C7
\* C7 (as stated): under the logarithmic kind rangeError is true when both
\* bounds are positive and their logarithms are equal.
C7_EqualLogsRejected ==
  (/\ last.op = "rangeError" /\ last.logscale
   /\ Positive(args.range_start) /\ Positive(args.range_end)
   /\ log10(args.range_start) = log10(args.range_end))
  => last.result = TRUE

\* C7 (amended): under the logarithmic kind rangeError is false when both
\* bounds are positive and their logarithms are equal: the zero width is
\* replaced by 1.0 before it is tested.
C7_EqualLogsAccepted ==
  (/\ last.op = "rangeError" /\ last.logscale
   /\ Positive(args.range_start) /\ Positive(args.range_end)
   /\ log10(args.range_start) = log10(args.range_end))
  => last.result = FALSE

C7_Witness ==
  /\ last.op = "rangeError" /\ last.logscale
  /\ Positive(args.range_start) /\ args.range_start = args.range_end
  /\ last.result = FALSE

\* ------------------------------------------------------------------ C8
\* C8: under the logarithmic kind dataPointToRelativeScaledValue never
\* returns an infinity, whatever the value, bounds and invert: the result is
\* finite or NaN, and NaN whenever value <= 0.
C8_NoInfinity ==
  (last.op = "dataPointToRelativeScaledValue" /\ last.logscale) =>
    /\ last.result.t \in {"fin", "nan"}
    /\ NonPositive(args.value) => last.result = NaN

C8_Witness ==
  /\ last.op = "dataPointToRelativeScaledValue" /\ last.logscale
  /\ args.value = Zero
  /\ Positive(args.range_start) /\ Positive(args.range_end)
  /\ args.range_start # args.range_end
  /\ last.result = NaN

\* ------------------------------------------------------------------ C9
\* C9: in any interleaving of calls with changes of scale kind, a call leaves
\* the graph's configuration unchanged and returns what its own arguments and
\* the scale kind its axis has at that call determine, whatever was called or
\* configured before; a change of scale kind leaves the last result alone.
C9_CallsArePure ==
  [][/\ (last' # last) =>
          /\ graph' = graph /\ args' = args
          /\ last'.logscale = graph[last'.axis]
          /\ last'.result = Apply(last'.op, graph[last'.axis], last'.axis, args)
     /\ (graph' # graph) => last' = last]_vars

C9_Witness ==
  /\ last.op = "rangeError" /\ last.logscale /\ last.result = TRUE
  /\ ~graph[last.axis]

\* ----------------------------------------------------------------- C10
\* C10: under the logarithmic kind, when rangeError accepts the range,
\* dataPointToRelativeScaledValue returns a finite number for every positive
\* finite value and both values of invert.
C10_AcceptedRangeIsFinite ==
  (/\ last.op = "dataPointToRelativeScaledValue" /\ last.logscale
   /\ Positive(args.value)
   /\ ~rangeError(GraphOf(TRUE), last.axis, args.range_start, args.range_end))
  => last.result.t = "fin"

C10_Witness ==
  /\ last.op = "dataPointToRelativeScaledValue" /\ last.logscale
  /\ Positive(args.value)
  /\ args.range_start = args.range_end
  /\ ~rangeError(GraphOf(TRUE), last.axis, args.range_start, args.range_end)
  /\ last.result.t = "fin"

====
